---- MODULE Spec2Model ----
(***************************************************************************)
(* A model of graphy: the PieChart front end (trunk/graphy/pie_chart.py)   *)
(* as a state machine over the chart's pies and the Segment objects they   *)
(* reference, and the Google Chart API encoders                            *)
(* (graphy/backends/google_chart_api/encoders.py) as the function from a   *)
(* formatted chart to the parameter mapping that Url() hands to EncodeUrl. *)
(*                                                                         *)
(* Python's None is the empty tuple and a present value v is <<v>>, so     *)
(* that optional integers and strings can be compared.                     *)
(***************************************************************************)
EXTENDS Integers, Sequences, FiniteSets, TLC

VARIABLES
  data,     \* PieChart.data: the pies, each a sequence of Segment references
  heap,     \* the Segment objects that exist: heap[r] = [size, label, color]
  last,     \* the last call made and its outcome: status, return value, warning
  the_chart, \* the formatted chart the encoder is bound to
  encoder,  \* the encoder: kind, extra_params, is3d, enhanced_encoding, _width, _height
  url_out   \* the outcome of the last Url(): status and parameter mapping

vars == <<data, heap, last, the_chart, encoder, url_out>>

None == <<>>
Some(v) == <<v>>
Val(o) == o[1]

RECURSIVE SeqMax(_)
SeqMax(s) ==
  IF Len(s) = 1 THEN s[1]
  ELSE LET m == SeqMax(Tail(s)) IN IF s[1] >= m THEN s[1] ELSE m

Max(a, b) == IF a >= b THEN a ELSE b

Reverse(s) == [i \in 1..Len(s) |-> s[Len(s) + 1 - i]]

(***************************************************************************)
(* Bounds of the pie chart state machine.                                  *)
(***************************************************************************)
MaxPies == 2
MaxSegments == 2

Sizes == {-1, 0, 3}
Labels == {None, Some("00ff00")}
Colors == {None, Some("ff0000")}

PieIndexes == {-2, -1, 0, 1, 2}
PointLists == {<<>>, <<3>>, <<0, 3>>, <<-1, 3>>, <<3, -1>>}
LabelLists == {None, Some(<<Some("a")>>)}
ColorLists == {None, Some(<<Some("ff0000")>>)}

(***************************************************************************)
(* util._IsColor: whether a string looks like a hex colour literal.  Of    *)
(* the labels drawn here, "00ff00" and "ff0000" are such literals.         *)
(***************************************************************************)
_IsColor(s) == s \in {"00ff00", "ff0000"}

(***************************************************************************)
(* Segment.__init__(size, label, color): warns when the label looks like a *)
(* colour, builds the object, then asserts size >= 0.  When the assertion  *)
(* fails the constructor raises and no reference to the object survives.   *)
(***************************************************************************)
SegmentInit(size, label, color) ==
  [ok     |-> size >= 0,
   warned |-> label # None /\ _IsColor(Val(label)),
   seg    |-> [size |-> size, label |-> label, color |-> color]]

(***************************************************************************)
(* Segment._SetSize(value): assert value >= 0, then data[0] = value.       *)
(***************************************************************************)
_SetSizeOk_NoAssert(value) == TRUE

_SetSizeOk(value) == value >= 0

_SetSize(h, r, value) ==
  IF _SetSizeOk(value) THEN [h EXCEPT ![r].size = value] ELSE h

(***************************************************************************)
(* PieChart.AddSegment on the state st = [data, heap].  `size` is either   *)
(* a number (legacy = FALSE) or a reference to a pre-built Segment         *)
(* (legacy = TRUE, the deprecated form).  The result carries the new state,*)
(* the status and the returned Segment reference.  When the call raises,   *)
(* no reference to a Segment it built survives, so the heap is unchanged.  *)
(***************************************************************************)
DefaultPie(d, pie_index) ==
  IF pie_index = 0 /\ d = <<>> THEN Append(d, <<>>) ELSE d

(***************************************************************************)
(* self.data[pie_index]: a list of n items takes the indexes -n .. n-1,    *)
(* a negative one counting from the end; any other raises IndexError.      *)
(***************************************************************************)
PyIndex(n, i) == IF i < 0 THEN i + n ELSE i

IndexInRange(n, i) == PyIndex(n, i) >= 0 /\ PyIndex(n, i) < n

AppendSegment(d, pie_index, r) ==
  [d EXCEPT ![PyIndex(Len(d), pie_index) + 1] = Append(@, r)]

AddSegmentStep(st, legacy, size, label, color, pie_index) ==
  LET built == IF legacy THEN [ok |-> TRUE, warned |-> TRUE, seg |-> st.heap[size]]
                         ELSE SegmentInit(size, label, color)
      h1 == IF legacy \/ ~built.ok THEN st.heap ELSE Append(st.heap, built.seg)
      r  == IF legacy THEN size ELSE Len(h1)
  IN  IF ~built.ok
        THEN [data |-> st.data, heap |-> st.heap, status |-> "AssertionError",
              ret |-> None, warned |-> built.warned]
      ELSE IF ~(h1[r].size >= 0)
        THEN [data |-> st.data, heap |-> st.heap, status |-> "AssertionError",
              ret |-> None, warned |-> built.warned]
      ELSE LET d1 == DefaultPie(st.data, pie_index) IN
        IF ~IndexInRange(Len(d1), pie_index)
          THEN [data |-> d1, heap |-> st.heap, status |-> "IndexError",
                ret |-> None, warned |-> built.warned]
          ELSE [data |-> AppendSegment(d1, pie_index, r), heap |-> h1,
                status |-> "ok", ret |-> Some(r), warned |-> built.warned]

(***************************************************************************)
(* PieChart.AddPie(points, labels, colors): the index is taken, the empty  *)
(* pie is appended, then the points are added one by one; the first        *)
(* negative point raises and leaves what was added before it.              *)
(***************************************************************************)
OptLen(l) == IF l = None THEN 0 ELSE Len(Val(l))

PieIndex_AfterAppend(d) == Len(d) + 1

PieIndex(d) == Len(d)

ItemOrNone(l, n, i) == IF i < n THEN Val(l)[i + 1] ELSE None

RECURSIVE AddPieLoop(_, _, _, _, _, _, _)
AddPieLoop(st, points, labels, colors, pie_index, i, warned) ==
  IF i >= Len(points)
    THEN [data |-> st.data, heap |-> st.heap, status |-> "ok",
          ret |-> Some(pie_index), warned |-> warned]
  ELSE IF ~(points[i + 1] >= 0)
    THEN [data |-> st.data, heap |-> st.heap, status |-> "AssertionError",
          ret |-> None, warned |-> warned]
  ELSE LET label == ItemOrNone(labels, OptLen(labels), i)
           color == ItemOrNone(colors, OptLen(colors), i)
           s == AddSegmentStep(st, FALSE, points[i + 1], label, color, pie_index)
       IN  IF s.status # "ok"
             THEN [s EXCEPT !.warned = warned \/ s.warned]
             ELSE AddPieLoop([data |-> s.data, heap |-> s.heap], points, labels,
                             colors, pie_index, i + 1, warned \/ s.warned)

AddPieStep(st, points, labels, colors) ==
  LET pie_index == PieIndex(st.data)
      d1 == Append(st.data, <<>>)
  IN  AddPieLoop([data |-> d1, heap |-> st.heap], points, labels, colors,
                 pie_index, 0, FALSE)

(***************************************************************************)
(* PieChart.__init__(points, labels, colors): an empty chart, and one pie  *)
(* when points is non-empty.  A constructor that raises leaves no chart.   *)
(***************************************************************************)
PieChartInit(points, labels, colors) ==
  IF points = None \/ Val(points) = <<>>
    THEN [data |-> <<>>, heap |-> <<>>, status |-> "ok", ret |-> None, warned |-> FALSE]
    ELSE AddPieStep([data |-> <<>>, heap |-> <<>>], Val(points), labels, colors)

NoCall == [op |-> "init", status |-> "ok", ret |-> None, warned |-> FALSE]
NoChart == [kind |-> "none"]
NoEnc == [kind |-> "none"]
NoResult == [status |-> "none"]

EncIdle == the_chart = NoChart /\ encoder = NoEnc /\ url_out = NoResult

InitPointLists == {None, Some(<<>>), Some(<<0, 3>>), Some(<<-1>>)}

Init ==
  /\ \E points \in InitPointLists, labels \in LabelLists, colors \in ColorLists :
       LET c == PieChartInit(points, labels, colors) IN
         /\ c.status = "ok"
         /\ data = c.data
         /\ heap = c.heap
  /\ last = NoCall
  /\ EncIdle

SegmentsHeld == Len(heap)

RECURSIVE RefsHeld(_)
RefsHeld(d) == IF d = <<>> THEN 0 ELSE Len(d[1]) + RefsHeld(Tail(d))

NewSegment(size, label, color) ==
  /\ SegmentsHeld < MaxSegments
  /\ LET b == SegmentInit(size, label, color) IN
       /\ heap' = IF b.ok THEN Append(heap, b.seg) ELSE heap
       /\ last' = [op |-> "Segment", status |-> IF b.ok THEN "ok" ELSE "AssertionError",
                   ret |-> IF b.ok THEN Some(Len(heap) + 1) ELSE None,
                   warned |-> b.warned]
  /\ UNCHANGED <<data, the_chart, encoder, url_out>>

AddSegment(size, label, color, pie_index) ==
  /\ SegmentsHeld < MaxSegments
  /\ LET s == AddSegmentStep([data |-> data, heap |-> heap], FALSE, size, label,
                             color, pie_index) IN
       /\ data' = s.data
       /\ heap' = s.heap
       /\ last' = [op |-> "AddSegment", status |-> s.status, ret |-> s.ret,
                   warned |-> s.warned]
  /\ UNCHANGED <<the_chart, encoder, url_out>>

AddSegmentLegacy(r, pie_index) ==
  /\ r \in 1..Len(heap)
  /\ RefsHeld(data) < MaxSegments
  /\ LET s == AddSegmentStep([data |-> data, heap |-> heap], TRUE, r, None, None,
                             pie_index) IN
       /\ data' = s.data
       /\ heap' = s.heap
       /\ last' = [op |-> "AddSegment", status |-> s.status, ret |-> s.ret,
                   warned |-> s.warned]
  /\ UNCHANGED <<the_chart, encoder, url_out>>

AddPie(points, labels, colors) ==
  /\ Len(data) < MaxPies
  /\ SegmentsHeld + Len(points) <= MaxSegments
  /\ LET s == AddPieStep([data |-> data, heap |-> heap], points, labels, colors) IN
       /\ data' = s.data
       /\ heap' = s.heap
       /\ last' = [op |-> "AddPie", status |-> s.status, ret |-> s.ret,
                   warned |-> s.warned]
  /\ UNCHANGED <<the_chart, encoder, url_out>>

SetSize(r, value) ==
  /\ r \in 1..Len(heap)
  /\ heap' = _SetSize(heap, r, value)
  /\ last' = [op |-> "SetSize",
              status |-> IF _SetSizeOk(value) THEN "ok" ELSE "AssertionError",
              ret |-> None, warned |-> FALSE]
  /\ UNCHANGED <<data, the_chart, encoder, url_out>>

(***************************************************************************)
(* Segment._SetColor(color), the setter of the color property: the colour  *)
(* of the segment's style is replaced, unchecked.                          *)
(***************************************************************************)
SetColor(r, color) ==
  /\ r \in 1..Len(heap)
  /\ heap' = [heap EXCEPT ![r].color = color]
  /\ last' = [op |-> "SetColor", status |-> "ok", ret |-> None, warned |-> FALSE]
  /\ UNCHANGED <<data, the_chart, encoder, url_out>>

Next ==
  \/ \E size \in Sizes :
       NewSegment(size, None, None)
  \/ \E size \in Sizes, label \in Labels, color \in {None}, pie_index \in PieIndexes :
       AddSegment(size, label, color, pie_index)
  \/ \E r \in 1..MaxSegments, pie_index \in PieIndexes :
       AddSegmentLegacy(r, pie_index)
  \/ \E points \in PointLists, labels \in LabelLists, colors \in ColorLists :
       AddPie(points, labels, colors)
  \/ \E r \in 1..MaxSegments, value \in Sizes :
       SetSize(r, value)
  \/ \E r \in 1..MaxSegments, color \in Colors :
       SetColor(r, color)

Spec == Init /\ [][Next]_vars

(***************************************************************************)
(*                      The Google Chart API encoders                      *)
(*                                                                         *)
(* Parameter values are tagged with their Python type, because _Params     *)
(* ends by replacing every value with str(value).                          *)
(***************************************************************************)
S(s) == [t |-> "str", s |-> s]
I(i) == [t |-> "int", i |-> i]
F(n, d) == [t |-> "float", n |-> n, d |-> d]

EmptyDict == [k \in {} |-> S("")]

RECURSIVE JoinStr(_, _)
JoinStr(delim, xs) ==
  IF xs = <<>> THEN ""
  ELSE IF Len(xs) = 1 THEN xs[1]
  ELSE xs[1] \o delim \o JoinStr(delim, Tail(xs))

(***************************************************************************)
(* A float is the quotient n / float(d) of two integers (d > 0): the       *)
(* binary64 value nearest to n/d, ties to even.  Its 53-bit mantissa and   *)
(* its decimal expansion are too large for machine integers, so a large    *)
(* natural number is a sequence of limbs in base 10^6, least significant   *)
(* first.                                                                  *)
(***************************************************************************)
RECURSIVE NatLimbs(_)
NatLimbs(n) == IF n = 0 THEN <<>> ELSE <<n % 1000000>> \o NatLimbs(n \div 1000000)

RECURSIVE MulSmall(_, _, _)
MulSmall(x, m, carry) ==
  IF x = <<>> THEN NatLimbs(carry)
  ELSE LET v == x[1] * m + carry IN <<v % 1000000>> \o MulSmall(Tail(x), m, v \div 1000000)

RECURSIVE MulPow5(_, _)
MulPow5(x, k) ==
  IF k = 0 THEN x
  ELSE IF k >= 4 THEN MulPow5(MulSmall(x, 625, 0), k - 4)
  ELSE MulPow5(MulSmall(x, 5, 0), k - 1)

LimbDigits(v) ==
  <<(v \div 100000) % 10, (v \div 10000) % 10, (v \div 1000) % 10,
    (v \div 100) % 10, (v \div 10) % 10, v % 10>>

RECURSIVE AllDigits(_)
AllDigits(x) == IF x = <<>> THEN <<>> ELSE AllDigits(Tail(x)) \o LimbDigits(x[1])

RECURSIVE StripLeadingZeros(_)
StripLeadingZeros(ds) ==
  IF ds # <<>> /\ ds[1] = 0 THEN StripLeadingZeros(Tail(ds)) ELSE ds

RECURSIVE StripZeros(_)
StripZeros(ds) ==
  IF ds # <<>> /\ ds[Len(ds)] = 0 THEN StripZeros(SubSeq(ds, 1, Len(ds) - 1)) ELSE ds

RECURSIVE ILog2(_)
ILog2(m) == IF m < 2 THEN 0 ELSE 1 + ILog2(m \div 2)

RECURSIVE CeilLog2(_)
CeilLog2(m) == IF m <= 1 THEN 0 ELSE 1 + CeilLog2((m + 1) \div 2)

(***************************************************************************)
(* Long division in binary: from the quotient q and remainder rem so far,  *)
(* k more bits of rem / d, four at a time.                                 *)
(***************************************************************************)
RECURSIVE QuotientBits(_, _, _, _)
QuotientBits(q, rem, d, k) ==
  IF k = 0 THEN [q |-> q, rem |-> rem]
  ELSE IF k >= 4
    THEN QuotientBits(MulSmall(q, 16, (rem * 16) \div d), (rem * 16) % d, d, k - 4)
    ELSE QuotientBits(MulSmall(q, 2, (rem * 2) \div d), (rem * 2) % d, d, k - 1)

(***************************************************************************)
(* The binary64 quotient a / d (a > 0) as [digits, scale]: its exact value *)
(* is the number with these decimal digits (most significant first)        *)
(* divided by 10^scale.  e is the binary exponent, 2^e <= a/d < 2^(e+1);   *)
(* the mantissa is a * 2^(52-e) / d rounded to an integer, ties to even;   *)
(* mantissa / 2^(52-e) = mantissa * 5^(52-e) / 10^(52-e).                  *)
(***************************************************************************)
BinaryExponent(a, d) ==
  IF a >= d THEN ILog2(a \div d) ELSE -CeilLog2((d + a - 1) \div a)

RoundHalfEven(qr, d) ==
  IF 2 * qr.rem > d \/ (2 * qr.rem = d /\ qr.q[1] % 2 = 1)
    THEN MulSmall(qr.q, 1, 1)
    ELSE qr.q

ScaledDigits(a, d, s) ==
  [digits |-> StripLeadingZeros(AllDigits(MulPow5(
                RoundHalfEven(QuotientBits(NatLimbs(a \div d), a % d, d, s), d), s))),
   scale  |-> s]

Binary64(a, d) == ScaledDigits(a, d, 52 - BinaryExponent(a, d))

RECURSIVE IncDigits(_)
IncDigits(ds) ==
  IF ds = <<>> THEN [carry |-> 1, ds |-> <<>>]
  ELSE LET k == Len(ds) IN
    IF ds[k] < 9 THEN [carry |-> 0, ds |-> [ds EXCEPT ![k] = @ + 1]]
    ELSE LET r == IncDigits(SubSeq(ds, 1, k - 1)) IN
           [carry |-> r.carry, ds |-> Append(r.ds, 0)]

RECURSIVE DigitsStr(_)
DigitsStr(ds) == IF ds = <<>> THEN "" ELSE ToString(ds[1]) \o DigitsStr(Tail(ds))

RECURSIVE Zeros(_)
Zeros(k) == IF k <= 0 THEN <<>> ELSE <<0>> \o Zeros(k - 1)

(***************************************************************************)
(* The exact decimal digits ds of a float, with decimal exponent X (the    *)
(* value is ds[1].ds[2]... * 10^X), rounded to P significant digits as     *)
(* printf does: to nearest, an exact tie to the even digit.  The digits    *)
(* come without their trailing zeros, with one exception of the C library  *)
(* conversion: a whole number of at most 15 digits whose rounding is an    *)
(* exact tie resolved downwards keeps all P digits (1005.0 rounds to the   *)
(* digits 1,0,0 and prints as 1.00e+03).                                   *)
(***************************************************************************)
RoundDigits(ds, X, P) ==
  IF Len(ds) <= P THEN [ds |-> ds, X |-> X, zerosKept |-> FALSE]
  ELSE LET head == SubSeq(ds, 1, P)
           next == ds[P + 1]
           rest == SubSeq(ds, P + 2, Len(ds))
           tie  == next = 5 /\ ~(\E i \in 1..Len(rest) : rest[i] # 0)
           up   == \/ next > 5
                   \/ next = 5 /\ (~tie \/ head[P] % 2 = 1)
           inc  == IF up THEN IncDigits(head) ELSE [carry |-> 0, ds |-> head]
       IN  IF inc.carry = 1
             THEN [ds |-> <<1>> \o Zeros(P - 1), X |-> X + 1, zerosKept |-> FALSE]
             ELSE [ds |-> inc.ds, X |-> X,
                   zerosKept |-> tie /\ ~up /\ X >= P /\ X <= 14]

ExponentStr(X) ==
  LET m == IF X < 0 THEN -X ELSE X IN
    (IF X < 0 THEN "e-" ELSE "e+") \o (IF m < 10 THEN "0" ELSE "") \o ToString(m)

(***************************************************************************)
(* "%.<P>g" % (n / float(d)): P significant digits, trailing zeros         *)
(* removed; the exponent form when the decimal exponent is < -4 or >= P.   *)
(* str(float) of Python 2 is "%.12g", followed by ".0" when the result     *)
(* holds digits only (pointZero); str() leaves the room for that ".0" and  *)
(* takes the exponent form one decade earlier, from 1e11 on.               *)
(***************************************************************************)
Layout(sign, sig, X, P, pointZero) ==
  IF X < -4 \/ X >= (IF pointZero THEN P - 1 ELSE P)
    THEN sign \o ToString(sig[1])
              \o (IF Len(sig) > 1 THEN "." \o DigitsStr(Tail(sig)) ELSE "")
              \o ExponentStr(X)
  ELSE IF X < 0
    THEN sign \o "0." \o DigitsStr(Zeros(-X - 1) \o sig)
  ELSE IF Len(sig) <= X + 1
    THEN sign \o DigitsStr(sig \o Zeros(X + 1 - Len(sig)))
              \o (IF pointZero THEN ".0" ELSE "")
  ELSE sign \o DigitsStr(SubSeq(sig, 1, X + 1)) \o "."
            \o DigitsStr(SubSeq(sig, X + 2, Len(sig)))

Rounded(b, P) == RoundDigits(b.digits, Len(b.digits) - 1 - b.scale, P)

FormatRounded(sign, r, P, pointZero) ==
  Layout(sign, IF r.zerosKept THEN r.ds ELSE StripZeros(r.ds), r.X, P, pointZero)

FormatG(n, d, P, pointZero) ==
  IF n = 0 THEN (IF pointZero THEN "0.0" ELSE "0")
  ELSE FormatRounded(IF n < 0 THEN "-" ELSE "",
                     Rounded(Binary64(IF n < 0 THEN -n ELSE n, d), P), P, pointZero)

FloatStr(n, d) == FormatG(n, d, 12, TRUE)

(***************************************************************************)
(* str(value), as _Params applies it to every parameter.                   *)
(***************************************************************************)
PyStr(v) ==
  CASE v.t = "str"   -> v.s
    [] v.t = "int"   -> ToString(v.i)
    [] v.t = "float" -> FloatStr(v.n, v.d)

StrOpt(o) == IF o = None THEN "None" ELSE ToString(Val(o))

(***************************************************************************)
(* util.JoinLists: an empty list is dropped, the others are joined with    *)
(* the delimiter of their key.                                             *)
(***************************************************************************)
JoinDelim(key) == IF key \in {"bar_height", "axis_type"} THEN "," ELSE "|"

JoinLists(key, xs) ==
  IF xs = <<>> THEN EmptyDict ELSE (key :> S(JoinStr(JoinDelim(key), xs)))

(***************************************************************************)
(* util.ShortenParameterNames: descriptive keys become the wire keys of    *)
(* the chart service, any other key is kept.  A mapping that holds two     *)
(* keys for one wire key (the descriptive and the wire form of the same    *)
(* parameter) has no single shortening: the call raises KeyError.          *)
(***************************************************************************)
LONG_NAMES ==
  [size |-> "chs", chart_type |-> "cht", data_series_label |-> "chdl",
   axis_type |-> "chxt", axis_range |-> "chxr", axis_label |-> "chxl",
   axis_position |-> "chxp", axis_tick_marks |-> "chxtc", grid |-> "chg",
   color |-> "chco", line_style |-> "chls", bar_height |-> "chbh",
   marker |-> "chm", label |-> "chl", data |-> "chd"]

ShortName(k) == IF k \in DOMAIN LONG_NAMES THEN LONG_NAMES[k] ELSE k

ShortNamesClash(params) ==
  \E k1, k2 \in DOMAIN params : k1 # k2 /\ ShortName(k1) = ShortName(k2)

ShortenParameterNames(params) ==
  [s \in {ShortName(k) : k \in DOMAIN params} |->
     params[CHOOSE k \in DOMAIN params : ShortName(k) = s]]

(***************************************************************************)
(* util.SimpleDataEncoder / EnhancedDataEncoder and util.EncodeData: each  *)
(* value is rescaled from (y_min, y_max) onto the encoder's range and      *)
(* written in its alphabet, a value outside the range as the missing-value *)
(* sentinel; y_min without y_max (or the reverse) is a contract violation. *)
(***************************************************************************)
Alphabet ==
  <<"A","B","C","D","E","F","G","H","I","J","K","L","M","N","O","P","Q","R","S",
    "T","U","V","W","X","Y","Z","a","b","c","d","e","f","g","h","i","j","k","l",
    "m","n","o","p","q","r","s","t","u","v","w","x","y","z","0","1","2","3","4",
    "5","6","7","8","9","-",".">>

EncoderMax(enhanced) == IF enhanced THEN 4095 ELSE 61

EncodeValue(v, enhanced) ==
  IF v < 0 \/ v > EncoderMax(enhanced)
    THEN (IF enhanced THEN "__" ELSE "_")
  ELSE IF enhanced THEN Alphabet[(v \div 64) + 1] \o Alphabet[(v % 64) + 1]
  ELSE Alphabet[v + 1]

\* (x - y_min) * new_max / (y_max - y_min), rounded to the nearest integer;
\* the encoding never fails on a range, so one of no width leaves the scale at 1
ScaleValue(x, y_min, y_max, new_max) ==
  IF y_max = y_min THEN x - y_min
  ELSE (2 * (x - y_min) * new_max + (y_max - y_min)) \div (2 * (y_max - y_min))

RECURSIVE EncodeSeries(_, _, _, _)
EncodeSeries(series, y_min, y_max, enhanced) ==
  IF series = <<>> THEN ""
  ELSE LET v == IF y_min = None THEN series[1]
                ELSE ScaleValue(series[1], Val(y_min), Val(y_max), EncoderMax(enhanced))
       IN  EncodeValue(v, enhanced) \o EncodeSeries(Tail(series), y_min, y_max, enhanced)

EncodeData(series_list, y_min, y_max, enhanced) ==
  IF (y_min = None) # (y_max = None)
    THEN [status |-> "AssertionError", out |-> EmptyDict]
    ELSE [status |-> "ok",
          out |-> ("data" :> S((IF enhanced THEN "e:" ELSE "s:") \o
                     JoinStr(",", [i \in 1..Len(series_list) |->
                        EncodeSeries(series_list[i], y_min, y_max, enhanced)])))]

(***************************************************************************)
(* A formatter returns the parameters it contributes, or raises.           *)
(***************************************************************************)
Ok(out) == [status |-> "ok", out |-> out]
Raise(e) == [status |-> e, out |-> EmptyDict]

(***************************************************************************)
(* BaseChart._GetAxes and GetDependentAxis: the axes in the order bottom,  *)
(* left, top, right with their type codes; the dependent axis is the left  *)
(* one.  An axis is named by its slot, so `axis == chart.left` (object     *)
(* identity) is slot = "left".                                             *)
(***************************************************************************)
_GetAxes == << <<"x", "bottom">>, <<"y", "left">>, <<"t", "top">>, <<"r", "right">> >>

AxisOf(chart, slot) ==
  CASE slot = "bottom" -> chart.bottom
    [] slot = "left"   -> chart.left
    [] slot = "top"    -> chart.top
    [] slot = "right"  -> chart.right

GetDependentAxis(chart) == chart.left

Truthy(o) == o # None /\ Val(o) # 0

(***************************************************************************)
(* BaseChartEncoder._GetLegendParams                                       *)
(***************************************************************************)
_GetLegendParams(chart) ==
  IF chart._show_legend THEN Ok(JoinLists("data_series_label", chart._legend_labels))
  ELSE Ok(EmptyDict)

(***************************************************************************)
(* BaseChartEncoder._GetDataSeriesParams: empty series are skipped; a      *)
(* marker is written with i, the position of its series in chart.data.     *)
(***************************************************************************)
MarkerIndex(i, emitted) == i

MarkerArgs(marker, i, x) ==
  JoinStr(",", <<marker.shape, marker.color, ToString(i), ToString(x),
                 ToString(marker.size)>>)

RECURSIVE DataSeriesLoop(_, _, _, _)
DataSeriesLoop(series_list, i, series_data, markers) ==
  IF i >= Len(series_list) THEN [series_data |-> series_data, markers |-> markers]
  ELSE LET series == series_list[i + 1] IN
    IF series.data = <<>>
      THEN DataSeriesLoop(series_list, i + 1, series_data, markers)
      ELSE DataSeriesLoop(series_list, i + 1, Append(series_data, series.data),
             markers \o [m \in 1..Len(series.markers) |->
                MarkerArgs(series.markers[m][2],
                           MarkerIndex(i, Len(series_data)),
                           series.markers[m][1])])

_GetDataSeriesParams(e, chart) ==
  LET y_min == GetDependentAxis(chart).min
      y_max == GetDependentAxis(chart).max
      loop  == DataSeriesLoop(chart.data, 0, <<>>, <<>>)
      result == EncodeData(loop.series_data, y_min, y_max, e.enhanced_encoding)
  IN  IF result.status # "ok" THEN result
      ELSE Ok(JoinLists("marker", loop.markers) @@ result.out)

(***************************************************************************)
(* BaseChartEncoder._GetColors: series.style.color of each non-empty       *)
(* series; a non-empty series whose style is None has no .color.           *)
(***************************************************************************)
NonEmptySeries(chart) == SelectSeq(chart.data, LAMBDA series : series.data # <<>>)

_GetColors(chart) ==
  LET kept == NonEmptySeries(chart) IN
    IF \E k \in 1..Len(kept) : kept[k].style = None
      THEN Raise("AttributeError")
      ELSE Ok(JoinLists("color", [k \in 1..Len(kept) |-> Val(kept[k].style).color]))

(***************************************************************************)
(* _GetAxisLabelsAndPositions.  The base encoder returns the two lists;    *)
(* the bar encoder returns reversed(...) iterators for the left axis of a  *)
(* horizontal chart, and an iterator is true even when it yields nothing.  *)
(***************************************************************************)
ListValue(xs) == [items |-> xs, truthy |-> xs # <<>>]
Reversed(xs) == [items |-> Reverse(xs), truthy |-> TRUE]

_GetAxisLabelsAndPositions(axis) ==
  [labels |-> ListValue(axis.labels), positions |-> ListValue(axis.label_positions)]

BarAxisReversed_AnyOrientation(slot, chart) == slot = "left"

BarAxisReversed(slot, chart) == ~chart.vertical /\ slot = "left"

BarChartEncoder_GetAxisLabelsAndPositions(slot, chart) ==
  LET axis == AxisOf(chart, slot) IN
    IF BarAxisReversed(slot, chart)
      THEN [labels |-> Reversed(axis.labels), positions |-> Reversed(axis.label_positions)]
      ELSE [labels |-> ListValue(axis.labels), positions |-> ListValue(axis.label_positions)]

AxisLabelsAndPositions(e, slot, chart) ==
  IF e.kind = "bar" THEN BarChartEncoder_GetAxisLabelsAndPositions(slot, chart)
  ELSE _GetAxisLabelsAndPositions(AxisOf(chart, slot))

(***************************************************************************)
(* BaseChartEncoder._GetAxisParams: the loop over the axes that have       *)
(* labels, i counting them from 0.                                         *)
(***************************************************************************)
LabelledAxes(chart) == SelectSeq(_GetAxes, LAMBDA a : AxisOf(chart, a[2]).labels # <<>>)

AxisRangeOk_NoAssert(axis) == TRUE

AxisRangeOk(axis) ==
  (axis.min # None \/ axis.max # None) => (axis.min # None /\ axis.max # None)

NoAxisLists ==
  [status |-> "ok", axis_types |-> <<>>, axis_ranges |-> <<>>, axis_labels |-> <<>>,
   axis_label_positions |-> <<>>, axis_label_gridlines |-> <<>>]

RECURSIVE AxisLoop(_, _, _, _, _)
AxisLoop(e, chart, axes, i, acc) ==
  IF i >= Len(axes) THEN acc
  ELSE LET axis == AxisOf(chart, axes[i + 1][2])
           lp   == AxisLabelsAndPositions(e, axes[i + 1][2], chart)
           mark_length == Max(e._width, e._height)
       IN
    IF ~AxisRangeOk(axis) THEN [acc EXCEPT !.status = "AssertionError"]
    ELSE AxisLoop(e, chart, axes, i + 1,
      [status |-> "ok",
       axis_types |-> Append(acc.axis_types, axes[i + 1][1]),
       axis_ranges |->
         IF axis.min # None \/ axis.max # None
           THEN Append(acc.axis_ranges,
                  JoinStr(",", <<ToString(i), StrOpt(axis.min), StrOpt(axis.max)>>))
           ELSE acc.axis_ranges,
       axis_labels |->
         IF lp.labels.truthy
           THEN acc.axis_labels \o <<ToString(i) \o ":">> \o lp.labels.items
           ELSE acc.axis_labels,
       axis_label_positions |->
         IF lp.positions.truthy
           THEN Append(acc.axis_label_positions,
                  JoinStr(",", <<ToString(i)>> \o
                    [k \in 1..Len(lp.positions.items) |-> ToString(lp.positions.items[k])]))
           ELSE acc.axis_label_positions,
       axis_label_gridlines |->
         IF axis.label_gridlines
           THEN Append(acc.axis_label_gridlines,
                  ToString(i) \o "," \o ToString(-mark_length))
           ELSE acc.axis_label_gridlines])

AxisLists(e, chart) == AxisLoop(e, chart, LabelledAxes(chart), 0, NoAxisLists)

_GetAxisParams(e, chart) ==
  LET l == AxisLists(e, chart) IN
    IF l.status # "ok" THEN Raise(l.status)
    ELSE Ok(JoinLists("axis_type", l.axis_types)
            @@ JoinLists("axis_range", l.axis_ranges)
            @@ JoinLists("axis_label", l.axis_labels)
            @@ JoinLists("axis_position", l.axis_label_positions)
            @@ JoinLists("axis_tick_marks", l.axis_label_gridlines))

(***************************************************************************)
(* BaseChartEncoder._GetGridParams: 100 * grid_spacing / (max - min) for   *)
(* the bottom and the left axis, written with "%.3g".                      *)
(***************************************************************************)
GridAssertOk(axis) == Truthy(axis.grid_spacing) => (axis.min # None /\ axis.max # None)

GridZeroTotal(axis) == Truthy(axis.grid_spacing) /\ Val(axis.max) - Val(axis.min) = 0

GridValue(axis) ==
  IF ~Truthy(axis.grid_spacing) THEN "0"
  ELSE LET total == Val(axis.max) - Val(axis.min)
           n == 100 * Val(axis.grid_spacing)
       IN  IF total > 0 THEN FormatG(n, total, 3, FALSE)
                        ELSE FormatG(-n, -total, 3, FALSE)

_GetGridParams(chart) ==
  IF ~GridAssertOk(chart.bottom) THEN Raise("AssertionError")
  ELSE IF GridZeroTotal(chart.bottom) THEN Raise("ZeroDivisionError")
  ELSE IF ~GridAssertOk(chart.left) THEN Raise("AssertionError")
  ELSE IF GridZeroTotal(chart.left) THEN Raise("ZeroDivisionError")
  ELSE IF Truthy(chart.bottom.grid_spacing) \/ Truthy(chart.left.grid_spacing)
    THEN Ok("grid" :> S(GridValue(chart.bottom) \o "," \o GridValue(chart.left) \o ",1,0"))
  ELSE Ok(EmptyDict)

(***************************************************************************)
(* _GetType of each encoder; the base encoder's raises.                    *)
(***************************************************************************)
BarType(vertical, stacked) ==
  CASE vertical /\ ~stacked  -> "bvg"
    [] vertical /\ stacked   -> "bvs"
    [] ~vertical /\ ~stacked -> "bhg"
    [] ~vertical /\ stacked  -> "bhs"

_GetType(e, chart) ==
  CASE e.kind = "base"      -> Raise("NotImplementedError")
    [] e.kind = "line"      -> Ok("chart_type" :> S("lc"))
    [] e.kind = "sparkline" -> Ok("chart_type" :> S("lfi"))
    [] e.kind = "bar"       -> Ok("chart_type" :> S(BarType(chart.vertical, chart.stacked)))
    [] e.kind = "pie"       -> Ok("chart_type" :> S(IF e.is3d THEN "p3" ELSE "p"))

(***************************************************************************)
(* BaseChartEncoder._GetExtraParams and _GetSizeParams                     *)
(***************************************************************************)
_GetExtraParams(e) == Ok(e.extra_params)

_GetSizeParams(e) == Ok("size" :> S(ToString(e._width) \o "x" \o ToString(e._height)))

(***************************************************************************)
(* LineChartEncoder._GetLineStyles: one "width,on,off" per series that has *)
(* a style; a series without one asserts that no style was seen before it. *)
(***************************************************************************)
RECURSIVE LineStyleLoop(_, _, _)
LineStyleLoop(series_list, k, styles) ==
  IF k > Len(series_list) THEN [status |-> "ok", styles |-> styles]
  ELSE LET style == series_list[k].style IN
    IF style # None
      THEN LineStyleLoop(series_list, k + 1,
             Append(styles, JoinStr(",", <<ToString(Val(style).width),
                                           ToString(Val(style).on),
                                           ToString(Val(style).off)>>)))
    ELSE IF styles # <<>> THEN [status |-> "AssertionError", styles |-> styles]
    ELSE LineStyleLoop(series_list, k + 1, styles)

_GetLineStyles(chart) ==
  LET l == LineStyleLoop(chart.data, 1, <<>>) IN
    IF l.status # "ok" THEN Raise(l.status) ELSE Ok(JoinLists("line_style", l.styles))

(***************************************************************************)
(* BarChartEncoder._ZeroPoint.  Python 2 orders None below every number,   *)
(* so an unset min (or max) compares as negative.                          *)
(***************************************************************************)
PyLtZero(o) == o = None \/ Val(o) < 0

ZeroPointValue_SignKept(min, max) == F(min, max - min)

ZeroPointValue(min, max) == F(-min, max - min)

_ZeroPoint(chart) ==
  LET min == GetDependentAxis(chart).min
      max == GetDependentAxis(chart).max
  IN  IF PyLtZero(min)
        THEN IF PyLtZero(max) THEN Ok("chp" :> I(1))
             ELSE IF min = None THEN Raise("TypeError")
             ELSE Ok("chp" :> ZeroPointValue(Val(min), Val(max)))
        ELSE Ok(EmptyDict)

(***************************************************************************)
(* BarChartEncoder._BuildBarChartStyle: fills in the unset members of      *)
(* (bar_thickness, bar_gap, group_gap).  x / float(y) followed by int() is *)
(* the quotient truncated towards zero.                                    *)
(***************************************************************************)
TruncDiv(n, d) == IF n >= 0 THEN n \div d ELSE -((-n) \div d)

Space_AlwaysWidth(e, chart) == e._width

Space(e, chart) == IF chart.vertical THEN e._width ELSE e._height

NumBars(chart) == SeqMax([k \in 1..Len(chart.data) |-> Len(chart.data[k].data)])

StackedThickness(space, bar_gap, num_bars) ==
  Max(1, (space - bar_gap * (num_bars - 1)) \div num_bars)

GroupedThickness(space, bar_gap, group_gap, num_groups, bars_per_group) ==
  LET group_num == space - group_gap * (num_groups - 1) IN
    IF group_num > 0
      THEN Max(1, TruncDiv(group_num - bar_gap * (bars_per_group - 1) * num_groups,
                           num_groups * bars_per_group))
      ELSE 1

_BuildBarChartStyle(e, chart, bar_thickness, bar_gap, group_gap) ==
  LET space == Space(e, chart)
      num_bars == NumBars(chart)
      bar_gap1 == IF bar_gap = None /\ group_gap # None
                    THEN Some(Max(0, Val(group_gap) \div 2)) ELSE bar_gap
      group_gap1 == IF group_gap = None /\ bar_gap1 # None
                      THEN Some(Val(bar_gap1) * 2) ELSE group_gap
      thickness ==
        IF bar_thickness # None THEN bar_thickness
        ELSE IF chart.stacked
          THEN IF bar_gap1 # None
                 THEN Some(StackedThickness(space, Val(bar_gap1), num_bars))
                 ELSE None
        ELSE IF bar_gap1 # None /\ group_gap1 # None
          THEN Some(GroupedThickness(space, Val(bar_gap1), Val(group_gap1), num_bars,
                                     Len(chart.data)))
        ELSE None
  IN  IF num_bars = 0
        THEN [bar_thickness |-> bar_thickness, bar_gap |-> bar_gap, group_gap |-> group_gap]
        ELSE [bar_thickness |-> thickness, bar_gap |-> bar_gap1, group_gap |-> group_gap1]

(***************************************************************************)
(* BarChartEncoder._ApplyBarChartStyle                                     *)
(***************************************************************************)
BuiltStyle(e, chart) ==
  _BuildBarChartStyle(e, chart, Val(chart.style).bar_thickness,
                      Val(chart.style).bar_gap, Val(chart.style).group_gap)

_ApplyBarChartStyle(e, chart) ==
  IF chart.style = None \/ chart.data = <<>> THEN Ok(EmptyDict)
  ELSE LET b == BuiltStyle(e, chart)
           spec == <<StrOpt(b.bar_thickness)>> \o
                   (IF b.bar_gap # None
                      THEN <<StrOpt(b.bar_gap)>> \o
                           (IF b.group_gap # None /\ ~chart.stacked
                              THEN <<StrOpt(b.group_gap)>> ELSE <<>>)
                      ELSE <<>>)
       IN  Ok(JoinLists("bar_height", spec))

(***************************************************************************)
(* PieChartEncoder._GetDataSeriesParams and _GetColors: chart.data is the  *)
(* list of segments; a false entry (None) is skipped.                      *)
(***************************************************************************)
TrueSegments(chart) == SelectSeq(chart.data, LAMBDA segment : segment # None)

LabelOrPlaceholder(label) == IF label = None \/ Val(label) = "" THEN "_" ELSE Val(label)

PieChartEncoder_GetDataSeriesParams(e, chart) ==
  LET segs == TrueSegments(chart)
      points == [k \in 1..Len(segs) |-> Val(segs[k]).size]
      labels == [k \in 1..Len(segs) |-> LabelOrPlaceholder(Val(segs[k]).label)]
      max_val == IF points # <<>> THEN SeqMax(points) ELSE 1
      encoded == EncodeData(<<points>>, Some(0), Some(max_val), e.enhanced_encoding)
  IN  IF encoded.status # "ok" THEN encoded
      ELSE Ok(JoinLists("label", labels) @@ encoded.out)

PieChartEncoder_GetColors(chart) ==
  LET segs == SelectSeq(TrueSegments(chart),
                        LAMBDA segment : Val(segment).color \notin {None, Some("")})
  IN  Ok(JoinLists("color", [k \in 1..Len(segs) |-> Val(Val(segs[k]).color)]))

(***************************************************************************)
(* _GetFormatters: the base list, and list.insert(-2, f) of the line and   *)
(* bar encoders, which puts f before the last two entries.                 *)
(***************************************************************************)
PyInsert(list, index, x) ==
  LET at == IF index < 0 THEN Max(0, Len(list) + index) ELSE index IN
    SubSeq(list, 1, at) \o <<x>> \o SubSeq(list, at + 1, Len(list))

InsertIndex_AfterExtraParams == 0 - 1

InsertIndex == -2

BaseFormatters ==
  <<"_GetLegendParams", "_GetDataSeriesParams", "_GetColors", "_GetAxisParams",
    "_GetGridParams", "_GetType", "_GetExtraParams", "_GetSizeParams">>

_GetFormatters(kind) ==
  CASE kind \in {"line", "sparkline"} ->
         PyInsert(BaseFormatters, InsertIndex, "_GetLineStyles")
    [] kind = "bar" ->
         PyInsert(PyInsert(BaseFormatters, InsertIndex, "_ZeroPoint"),
                  InsertIndex, "_ApplyBarChartStyle")
    [] OTHER -> BaseFormatters

Format(f, e, chart) ==
  CASE f = "_GetLegendParams" -> _GetLegendParams(chart)
    [] f = "_GetDataSeriesParams" ->
         IF e.kind = "pie" THEN PieChartEncoder_GetDataSeriesParams(e, chart)
                           ELSE _GetDataSeriesParams(e, chart)
    [] f = "_GetColors" ->
         IF e.kind = "pie" THEN PieChartEncoder_GetColors(chart) ELSE _GetColors(chart)
    [] f = "_GetAxisParams" -> _GetAxisParams(e, chart)
    [] f = "_GetGridParams" -> _GetGridParams(chart)
    [] f = "_GetType" -> _GetType(e, chart)
    [] f = "_GetLineStyles" -> _GetLineStyles(chart)
    [] f = "_ZeroPoint" -> _ZeroPoint(chart)
    [] f = "_ApplyBarChartStyle" -> _ApplyBarChartStyle(e, chart)
    [] f = "_GetExtraParams" -> _GetExtraParams(e)
    [] f = "_GetSizeParams" -> _GetSizeParams(e)

(***************************************************************************)
(* BaseChartEncoder._Params: every formatter's parameters, shortened, are  *)
(* merged over the earlier ones; then every value becomes its str().  The  *)
(* first formatter that raises ends the call.                              *)
(***************************************************************************)
RECURSIVE RunFormatters(_, _, _, _, _)
RunFormatters(e, chart, formatters, k, params) ==
  IF k > Len(formatters) THEN Ok(params)
  ELSE LET r == Format(formatters[k], e, chart) IN
    IF r.status # "ok" THEN Raise(r.status)
    ELSE IF ShortNamesClash(r.out) THEN Raise("KeyError")
    ELSE RunFormatters(e, chart, formatters, k + 1,
                       ShortenParameterNames(r.out) @@ params)

_Params(e, chart) ==
  LET r == RunFormatters(e, chart, _GetFormatters(e.kind), 1, EmptyDict) IN
    [status |-> r.status,
     params |-> [k \in DOMAIN r.out |-> PyStr(r.out[k])]]

(***************************************************************************)
(* BaseChartEncoder.Url(width, height): records the size and derives the   *)
(* parameters of the formatted chart, which go to util.EncodeUrl.          *)
(***************************************************************************)
Url(width, height) ==
  /\ encoder # NoEnc
  /\ LET e == [encoder EXCEPT !._width = width, !._height = height]
         r == _Params(e, the_chart)
     IN  /\ encoder' = e
         /\ url_out' = r
         /\ last' = [op |-> "Url", status |-> r.status, ret |-> None, warned |-> FALSE]
  /\ UNCHANGED <<data, heap, the_chart>>

(***************************************************************************)
(* The objects of the chart model that the encoders read: Axis,            *)
(* DataSeries, Marker, styles, and a chart as its constructor leaves it.   *)
(***************************************************************************)
MkAxis(min, max, labels, label_positions, label_gridlines, grid_spacing) ==
  [min |-> min, max |-> max, labels |-> labels, label_positions |-> label_positions,
   label_gridlines |-> label_gridlines, grid_spacing |-> grid_spacing]

DefaultAxis == MkAxis(None, None, <<>>, <<>>, FALSE, None)

MkSeries(points, label, style, markers) ==
  [data |-> points, label |-> label, style |-> style, markers |-> markers]

MarkerX == [shape |-> "x", color |-> "0000ff", size |-> 5]

LineStyle(width, on, off, color) ==
  Some([color |-> color, width |-> width, on |-> on, off |-> off])

Solid(color) == LineStyle(1, 1, 0, color)
Dashed(color) == LineStyle(1, 8, 4, color)
BasicStyle(color) == Some([color |-> color])

BarStyle(bar_thickness, bar_gap, group_gap) ==
  Some([bar_thickness |-> bar_thickness, bar_gap |-> bar_gap, group_gap |-> group_gap])

EmptyChart ==
  [data |-> <<>>, bottom |-> DefaultAxis, left |-> DefaultAxis, top |-> DefaultAxis,
   right |-> DefaultAxis, _show_legend |-> FALSE, _legend_labels |-> <<>>,
   vertical |-> TRUE, stacked |-> FALSE, style |-> None]

WithAxis(chart, slot, axis) ==
  CASE slot = "bottom" -> [chart EXCEPT !.bottom = axis]
    [] slot = "left"   -> [chart EXCEPT !.left = axis]
    [] slot = "top"    -> [chart EXCEPT !.top = axis]
    [] slot = "right"  -> [chart EXCEPT !.right = axis]

(***************************************************************************)
(* BaseChartEncoder.__init__ (and PieChartEncoder.__init__ for is3d)       *)
(***************************************************************************)
NewEncoder(kind, is3d) ==
  [kind |-> kind, extra_params |-> EmptyDict, is3d |-> is3d,
   enhanced_encoding |-> FALSE, _width |-> 0, _height |-> 0]

(***************************************************************************)
(* BarChartEncoder.__init__(chart, style) and the style property of the    *)
(* encoder: both are deprecated ways to assign chart.style and signal a    *)
(* DeprecationWarning; the constructor assigns only a style that is given. *)
(***************************************************************************)
BarChartEncoderInit(chart, style) ==
  [encoder |-> NewEncoder("bar", FALSE),
   chart   |-> IF style # None THEN [chart EXCEPT !.style = style] ELSE chart,
   warned  |-> style # None]

SetStyle(value) ==
  /\ encoder.kind = "bar"
  /\ the_chart' = [the_chart EXCEPT !.style = value]
  /\ last' = [op |-> "SetStyle", status |-> "ok", ret |-> None, warned |-> TRUE]
  /\ UNCHANGED <<data, heap, encoder, url_out>>

SetStyles == {None, BarStyle(Some(9), Some(1), Some(2)), BarStyle(None, Some(0), Some(150))}

PieIdle == data = <<>> /\ heap = <<>>

UrlSizes == {<<300, 200>>, <<40, 60>>}

(***************************************************************************)
(* Sample charts                                                           *)
(***************************************************************************)
LineSample ==
  [EmptyChart EXCEPT
     !.data = <<MkSeries(<<1, 2, 3>>, Some("up"), Solid("0000ff"), << <<0, MarkerX>> >>),
                MkSeries(<<5, 6>>, Some("down"), Dashed("ff0000"), <<>>)>>,
     !._show_legend = TRUE,
     !._legend_labels = <<"up", "down">>,
     !.left = MkAxis(Some(0), Some(10), <<"lo", "hi">>, <<0, 10>>, TRUE, None)]

UnstyledLineSample ==
  [EmptyChart EXCEPT !.data = <<MkSeries(<<1, 2, 3>>, None, None, <<>>)>>]

BarSample ==
  [EmptyChart EXCEPT
     !.data = <<MkSeries(<<1, 2, 3>>, None, BasicStyle("00ff00"), <<>>),
                MkSeries(<<4, 5>>, None, BasicStyle("ff0000"), <<>>)>>,
     !.left = MkAxis(Some(-50), Some(100), <<>>, <<>>, FALSE, None),
     !.style = BarStyle(None, Some(4), None)]

PlainBarSample(vertical) ==
  [EmptyChart EXCEPT
     !.data = <<MkSeries(<<1, 2, 3>>, None, BasicStyle("00ff00"), <<>>)>>,
     !.vertical = vertical]

PieSample ==
  [EmptyChart EXCEPT
     !.data = <<Some([size |-> 10, label |-> Some("a"), color |-> Some("ff0000")]),
                None,
                Some([size |-> 30, label |-> None, color |-> None])>>]

(***************************************************************************)
(* Extra parameters: encoder.extra_params[key] = value, then Url().        *)
(***************************************************************************)
MaxExtra == 2

ExtraKeys == {"size", "chs", "chart_type", "line_style", "chp", "bar_height"}
ExtraValues == {S("zz"), I(7)}

EncoderSamples ==
  {<<NewEncoder("base", FALSE), LineSample>>,
   <<NewEncoder("line", FALSE), LineSample>>,
   <<NewEncoder("sparkline", FALSE), LineSample>>,
   <<NewEncoder("bar", FALSE), BarSample>>,
   <<NewEncoder("pie", FALSE), PieSample>>,
   <<NewEncoder("pie", TRUE), PieSample>>}

InitExtra ==
  /\ PieIdle
  /\ \E s \in EncoderSamples : encoder = s[1] /\ the_chart = s[2]
  /\ url_out = NoResult
  /\ last = NoCall

SetExtraParam(key, value) ==
  /\ key \in DOMAIN encoder.extra_params
       \/ Cardinality(DOMAIN encoder.extra_params) < MaxExtra
  /\ encoder' = [encoder EXCEPT !.extra_params = (key :> value) @@ @]
  /\ last' = [op |-> "SetExtraParam", status |-> "ok", ret |-> None, warned |-> FALSE]
  /\ UNCHANGED <<data, heap, the_chart, url_out>>

NextExtra ==
  \/ \E key \in ExtraKeys, value \in ExtraValues : SetExtraParam(key, value)
  \/ \E wh \in UrlSizes : Url(wh[1], wh[2])

SpecExtra == InitExtra /\ [][NextExtra]_vars

(***************************************************************************)
(* Axes: one axis of a chart is given a range, labels, label positions,    *)
(* tick marks and a grid spacing, next to a bottom axis that is left as it *)
(* is or carries a grid spacing over a range of no width or over half a    *)
(* range; then Url().                                                      *)
(***************************************************************************)
AxisRanges ==
  {<<None, None>>, <<Some(0), None>>, <<None, Some(100)>>, <<Some(0), Some(100)>>,
   <<Some(5), Some(5)>>}

AxisVariants ==
  {MkAxis(r[1], r[2], labels, positions, gridlines, spacing) :
     r \in AxisRanges, labels \in {<<>>, <<"a", "b">>},
     positions \in {<<>>, <<0, 50>>}, gridlines \in BOOLEAN,
     spacing \in {None, Some(20), Some(1005)}}

BottomGridAxes ==
  {MkAxis(Some(5), Some(5), <<>>, <<>>, FALSE, Some(20)),
   MkAxis(None, Some(100), <<>>, <<>>, FALSE, Some(20))}

AxisSamples ==
  {<<NewEncoder("base", FALSE), LineSample>>,
   <<NewEncoder("line", FALSE), [LineSample EXCEPT !.left = DefaultAxis]>>,
   <<NewEncoder("line", FALSE), UnstyledLineSample>>,
   <<NewEncoder("bar", FALSE), PlainBarSample(TRUE)>>,
   <<NewEncoder("bar", FALSE), PlainBarSample(FALSE)>>,
   <<NewEncoder("pie", FALSE), PieSample>>}

Slots == {"bottom", "left", "top", "right"}

InitAxes ==
  /\ PieIdle
  /\ \E s \in AxisSamples, slot \in Slots, axis \in AxisVariants :
       \E bottom \in {s[2].bottom} \cup BottomGridAxes :
         /\ encoder = s[1]
         /\ the_chart = WithAxis([s[2] EXCEPT !.bottom = bottom], slot, axis)
  /\ url_out = NoResult
  /\ last = NoCall

NextAxes == \E wh \in UrlSizes : Url(wh[1], wh[2])

SpecAxes == InitAxes /\ [][NextAxes]_vars

(***************************************************************************)
(* Bar charts: ranges of the dependent axis for the zero point, bar styles *)
(* for the sizing, labelled axes for the label order; then Url().          *)
(***************************************************************************)
BarSeries3 == MkSeries(<<1, 2, 3>>, None, BasicStyle("00ff00"), <<>>)
BarSeries2 == MkSeries(<<4, 5>>, None, BasicStyle("ff0000"), <<>>)
BarSeries0 == MkSeries(<<>>, None, BasicStyle("0000ff"), <<>>)

BarChart(vertical, stacked, series) ==
  [EmptyChart EXCEPT !.vertical = vertical, !.stacked = stacked, !.data = series]

BarRanges ==
  {<<None, None>>, <<Some(-50), Some(100)>>, <<Some(-100), Some(-10)>>,
   <<Some(0), Some(100)>>, <<Some(-5), Some(0)>>, <<Some(10), Some(20)>>}

BarZeroCharts ==
  {[BarChart(v, s, series) EXCEPT !.left = MkAxis(r[1], r[2], <<>>, <<>>, FALSE, None)] :
     v \in BOOLEAN, s \in BOOLEAN, series \in {<<BarSeries3>>, <<BarSeries3, BarSeries2>>},
     r \in BarRanges}

BarStyles ==
  {None} \cup
  {BarStyle(t, g, gg) : t \in {None, Some(7)}, g \in {None, Some(0), Some(4), Some(200)},
                        gg \in {None, Some(8), Some(-3), Some(150)}}

BarStyleCharts ==
  {[BarChart(v, s, series) EXCEPT !.style = style] :
     v \in BOOLEAN, s \in BOOLEAN, style \in BarStyles,
     series \in {<<>>, <<BarSeries0>>, <<BarSeries3>>, <<BarSeries3, BarSeries2>>}}

LeftLabelAxes ==
  {DefaultAxis,
   MkAxis(None, None, <<"a", "b", "c">>, <<>>, FALSE, None),
   MkAxis(None, None, <<"a", "b", "c">>, <<0, 50, 100>>, FALSE, None)}

OtherLabelAxes == {DefaultAxis, MkAxis(None, None, <<"x1", "x2">>, <<1, 2>>, FALSE, None)}

BarLabelCharts ==
  {[BarChart(v, s, <<BarSeries3>>) EXCEPT !.left = l, !.bottom = o, !.top = o, !.right = o] :
     v \in BOOLEAN, s \in BOOLEAN, l \in LeftLabelAxes, o \in OtherLabelAxes}

InitBar ==
  /\ PieIdle
  /\ \E chart \in BarZeroCharts \cup BarStyleCharts \cup BarLabelCharts,
        style \in SetStyles :
       LET b == BarChartEncoderInit(chart, style) IN
         /\ encoder = b.encoder
         /\ the_chart = b.chart
         /\ last = [NoCall EXCEPT !.warned = b.warned]
  /\ url_out = NoResult

NextBar ==
  \/ \E wh \in UrlSizes : Url(wh[1], wh[2])
  \/ \E value \in SetStyles : SetStyle(value)

SpecBar == InitBar /\ [][NextBar]_vars

(***************************************************************************)
(* Line charts.  LineChart.AddLine(points, label, color, markers) appends  *)
(* a DataSeries with the label, a solid line style of the colour, and the  *)
(* markers.  The third argument is a colour; a list of markers there is    *)
(* the retired order (data, label, markers, color): it signals a           *)
(* DeprecationWarning and the two arguments are taken the other way round. *)
(* A DataSeries appended to chart.data directly has no style.              *)
(***************************************************************************)
MaxSeries == 3

ColorArg(c) == [t |-> "str", s |-> c]
MarkersArg(m) == [t |-> "markers", m |-> m]

AddLineSeries_NoMarkers(points, label, color, markers) ==
  [series |-> MkSeries(points, label,
                       Solid(IF color.t = "markers" THEN markers.s ELSE color.s), <<>>),
   warned |-> color.t = "markers"]

AddLineSeries(points, label, color, markers) ==
  IF color.t = "markers"
    THEN [series |-> MkSeries(points, label, Solid(markers.s), color.m), warned |-> TRUE]
    ELSE [series |-> MkSeries(points, label, Solid(color.s), markers.m), warned |-> FALSE]

AddLine(points, label, color, markers) ==
  /\ Len(the_chart.data) < MaxSeries
  /\ LET a == AddLineSeries(points, label, color, markers) IN
       /\ the_chart' = [the_chart EXCEPT !.data = Append(@, a.series)]
       /\ last' = [op |-> "AddLine", status |-> "ok",
                   ret |-> Some(Len(the_chart.data) + 1), warned |-> a.warned]
  /\ UNCHANGED <<data, heap, encoder, url_out>>

AppendDataSeries(points) ==
  /\ Len(the_chart.data) < MaxSeries
  /\ the_chart' = [the_chart EXCEPT !.data = Append(@, MkSeries(points, None, None, <<>>))]
  /\ last' = [op |-> "AppendDataSeries", status |-> "ok", ret |-> None, warned |-> FALSE]
  /\ UNCHANGED <<data, heap, encoder, url_out>>

LinePoints == {<<>>, <<1, 2>>}
LineLabels == {Some("label")}
LineColors == {"0000ff"}
LineMarkers == {<<>>, << <<0, MarkerX>> >>}

InitLine ==
  /\ PieIdle
  /\ encoder \in {NewEncoder("line", FALSE), NewEncoder("sparkline", FALSE)}
  /\ the_chart = EmptyChart
  /\ url_out = NoResult
  /\ last = NoCall

NextLine ==
  \/ \E points \in LinePoints, label \in LineLabels, color \in LineColors,
        markers \in LineMarkers :
       AddLine(points, label, ColorArg(color), MarkersArg(markers))
  \/ \E points \in LinePoints, label \in LineLabels, color \in LineColors,
        markers \in LineMarkers :
       AddLine(points, label, MarkersArg(markers), ColorArg(color))
  \/ \E points \in LinePoints : AppendDataSeries(points)
  \/ \E wh \in {<<300, 200>>} : Url(wh[1], wh[2])

SpecLine == InitLine /\ [][NextLine]_vars

(***************************************************************************)
(* C1: in the parameters built by Url(width, height) the size is always    *)
(* "<width>x<height>" of that call, even when extra_params sets the size   *)
(* key, and every other key that extra_params sets (chart type, line       *)
(* style, zero point, bar height included) has the value from              *)
(* extra_params.                                                           *)
(***************************************************************************)
C1_SizeLastExtraParamsOverRest ==
  [][\A wh \in UrlSizes :
       (/\ last'.op = "Url" /\ url_out'.status = "ok"
        /\ encoder'._width = wh[1] /\ encoder'._height = wh[2]
        /\ Url(wh[1], wh[2])) =>
         /\ url_out'.params["chs"] = ToString(wh[1]) \o "x" \o ToString(wh[2])
         /\ \A k \in DOMAIN encoder.extra_params :
              ShortName(k) # "chs" =>
                url_out'.params[ShortName(k)] = PyStr(encoder.extra_params[k])]_vars

C1_Witness ==
  /\ last.op = "Url" /\ url_out.status = "ok" /\ encoder.kind = "line"
  /\ DOMAIN encoder.extra_params = {"size", "line_style"}
  /\ encoder.extra_params["size"] = S("zz")
  /\ encoder.extra_params["line_style"] = I(7)
  /\ url_out.params["chs"] = "300x200"
  /\ url_out.params["chls"] = "7"

(***************************************************************************)
(* C2: a line chart that mixes empty and non-empty series is encoded to    *)
(* the same parameters as the chart with the empty series removed.         *)
(***************************************************************************)
HasEmptySeries(chart) == \E k \in 1..Len(chart.data) : chart.data[k].data = <<>>
HasNonEmptySeries(chart) == \E k \in 1..Len(chart.data) : chart.data[k].data # <<>>

C2_EmptySeriesContributeNothing ==
  (last.op = "Url" /\ HasEmptySeries(the_chart) /\ HasNonEmptySeries(the_chart)) =>
     url_out = _Params(encoder, [the_chart EXCEPT !.data = NonEmptySeries(the_chart)])

(***************************************************************************)
(* C3: a line chart with at least one styled and at least one unstyled     *)
(* series, in any order, fails in Url with an assertion error.             *)
(***************************************************************************)
HasStyled(chart) == \E k \in 1..Len(chart.data) : chart.data[k].style # None
HasUnstyled(chart) == \E k \in 1..Len(chart.data) : chart.data[k].style = None

C3_MixedStylesFail ==
  (last.op = "Url" /\ HasStyled(the_chart) /\ HasUnstyled(the_chart)) =>
     url_out.status = "AssertionError"

(***************************************************************************)
(* C4 as stated: whenever some axis of the chart has exactly one of min    *)
(* and max set, Url fails with an assertion error.                         *)
(***************************************************************************)
OneSided(axis) == (axis.min = None) # (axis.max = None)

C4_AnyOneSidedAxisFails ==
  (last.op = "Url" /\ \E slot \in Slots : OneSided(AxisOf(the_chart, slot))) =>
     url_out.status = "AssertionError"

(***************************************************************************)
(* C4 amended: if an axis with exactly one of min and max set has labels,  *)
(* or is the bottom or left axis with a non-zero grid spacing, Url returns *)
(* no URL: it fails with an assertion error, unless an earlier step has    *)
(* already failed: the colours with an AttributeError for a non-empty      *)
(* series without a style, or the grid with a ZeroDivisionError for a      *)
(* bottom axis that has a grid spacing over a range with min = max.        *)
(***************************************************************************)
RangeRead(chart, slot) ==
  \/ AxisOf(chart, slot).labels # <<>>
  \/ slot \in {"bottom", "left"} /\ Truthy(AxisOf(chart, slot).grid_spacing)

ZeroWidthGrid(axis) ==
  Truthy(axis.grid_spacing) /\ axis.min # None /\ axis.min = axis.max

C4_OneSidedAxisInUseFails ==
  (last.op = "Url" /\ \E slot \in Slots :
      OneSided(AxisOf(the_chart, slot)) /\ RangeRead(the_chart, slot)) =>
     \/ url_out.status = "AssertionError"
     \/ url_out.status = "AttributeError" /\ the_chart.data = UnstyledLineSample.data
     \/ url_out.status = "ZeroDivisionError" /\ ZeroWidthGrid(the_chart.bottom)

C4_ZeroWidthBottomFirst ==
  /\ last.op = "Url" /\ url_out.status = "ZeroDivisionError" /\ encoder.kind = "pie"
  /\ ZeroWidthGrid(the_chart.bottom)
  /\ OneSided(the_chart.left) /\ Truthy(the_chart.left.grid_spacing)

C4_Witness ==
  /\ last.op = "Url" /\ url_out.status = "AssertionError" /\ encoder.kind = "line"
  /\ the_chart.top.min = Some(0) /\ the_chart.top.max = None
  /\ the_chart.top.labels = <<"a", "b">>
  /\ the_chart.left = DefaultAxis /\ the_chart.bottom = DefaultAxis

(***************************************************************************)
(* C5: for a bar chart whose dependent axis has the range (min, max) with  *)
(* min <= max, chp is emitted exactly when min < 0; it is 1 when max < 0   *)
(* and otherwise the number with chp * (max - min) = -min.                 *)
(***************************************************************************)
C5_ZeroPoint ==
  (/\ last.op = "Url" /\ encoder.kind = "bar"
   /\ the_chart.left.min # None /\ the_chart.left.max # None
   /\ Val(the_chart.left.min) <= Val(the_chart.left.max)) =>
     LET min == Val(the_chart.left.min)
         max == Val(the_chart.left.max)
         z   == _ZeroPoint(the_chart).out
     IN  /\ url_out.status = "ok"
         /\ ("chp" \in DOMAIN url_out.params) <=> (min < 0)
         /\ (min < 0 /\ max < 0) => (z["chp"] = I(1) /\ url_out.params["chp"] = "1")
         /\ (min < 0 /\ max >= 0) =>
              /\ z["chp"].t = "float"
              /\ z["chp"].d > 0
              /\ z["chp"].n * (max - min) = (-min) * z["chp"].d
              /\ url_out.params["chp"] = PyStr(z["chp"])

C5_Witness ==
  /\ last.op = "Url" /\ url_out.status = "ok" /\ encoder.kind = "bar"
  /\ the_chart.left.min = Some(-50) /\ the_chart.left.max = Some(100)
  /\ url_out.params["chp"] = "0.333333333333"

(***************************************************************************)
(* C6: for a bar chart with a style whose bar_thickness is unset and with  *)
(* at least one bar, the thickness derived is an integer >= 1: stacked     *)
(* with bar_gap known, max(1, (space - bar_gap*(num_bars-1)) // num_bars); *)
(* grouped with both gaps known, 1 if the group size is <= 0, else         *)
(* max(1, floor((group_size - bar_gap*(num_series-1)) / num_series));      *)
(* space is the width for vertical charts and the height for horizontal.   *)
(***************************************************************************)
KnownBarGap(style) ==
  IF style.bar_gap # None THEN style.bar_gap
  ELSE IF style.group_gap # None THEN Some(Max(0, Val(style.group_gap) \div 2))
  ELSE None

KnownGroupGap(style) ==
  IF style.group_gap # None THEN style.group_gap
  ELSE IF style.bar_gap # None THEN Some(2 * Val(style.bar_gap))
  ELSE None

ExpectedThickness(space, stacked, bar_gap, group_gap, num_bars, num_series) ==
  IF stacked THEN Max(1, (space - bar_gap * (num_bars - 1)) \div num_bars)
  ELSE LET group_num == space - group_gap * (num_bars - 1) IN
         IF group_num <= 0 THEN 1
         ELSE Max(1, (group_num - bar_gap * (num_series - 1) * num_bars)
                       \div (num_bars * num_series))

C6_AutoThickness ==
  (/\ last.op = "Url" /\ encoder.kind = "bar"
   /\ the_chart.style # None /\ the_chart.data # <<>>
   /\ Val(the_chart.style).bar_thickness = None
   /\ NumBars(the_chart) > 0
   /\ KnownBarGap(Val(the_chart.style)) # None) =>
     LET space == IF the_chart.vertical THEN encoder._width ELSE encoder._height
         bar_gap == Val(KnownBarGap(Val(the_chart.style)))
         group_gap == Val(KnownGroupGap(Val(the_chart.style)))
         t == ExpectedThickness(space, the_chart.stacked, bar_gap, group_gap,
                                NumBars(the_chart), Len(the_chart.data))
     IN  /\ t >= 1
         /\ url_out.status = "ok"
         /\ url_out.params["chbh"] =
              JoinStr(",", <<ToString(t), ToString(bar_gap)>> \o
                           (IF the_chart.stacked THEN <<>> ELSE <<ToString(group_gap)>>))

C6_Witness ==
  /\ last.op = "Url" /\ url_out.status = "ok" /\ encoder.kind = "bar"
  /\ ~the_chart.vertical /\ ~the_chart.stacked /\ Len(the_chart.data) = 2
  /\ the_chart.style = BarStyle(None, Some(4), None)
  /\ encoder._height = 200
  /\ url_out.params["chbh"] = "28,4,8"

(***************************************************************************)
(* C7: a horizontal bar chart's left axis has its labels and label         *)
(* positions emitted in reverse of their declaration order; the bottom,    *)
(* top and right axes, and every axis of a vertical bar chart, have them   *)
(* emitted in declaration order.                                           *)
(***************************************************************************)
ExpectedOrder(chart, slot, xs) ==
  IF ~chart.vertical /\ slot = "left" THEN Reverse(xs) ELSE xs

RECURSIVE ExpectedAxisLabels(_, _, _)
ExpectedAxisLabels(chart, axes, i) ==
  IF i >= Len(axes) THEN <<>>
  ELSE <<ToString(i) \o ":">>
         \o ExpectedOrder(chart, axes[i + 1][2], AxisOf(chart, axes[i + 1][2]).labels)
         \o ExpectedAxisLabels(chart, axes, i + 1)

ExpectedPositions(chart, slot, i) ==
  LET xs == ExpectedOrder(chart, slot, AxisOf(chart, slot).label_positions) IN
    JoinStr(",", <<ToString(i)>> \o [k \in 1..Len(xs) |-> ToString(xs[k])])

C7_HorizontalLeftAxisReversed ==
  (last.op = "Url" /\ encoder.kind = "bar" /\ LabelledAxes(the_chart) # <<>>) =>
     LET axes == LabelledAxes(the_chart)
         emitted == AxisLists(encoder, the_chart).axis_label_positions
     IN  /\ url_out.status = "ok"
         /\ url_out.params["chxl"] = JoinStr("|", ExpectedAxisLabels(the_chart, axes, 0))
         /\ emitted # <<>> => url_out.params["chxp"] = JoinStr("|", emitted)
         /\ \A i \in 1..Len(axes) :
              AxisOf(the_chart, axes[i][2]).label_positions # <<>> =>
                \E j \in 1..Len(emitted) :
                  emitted[j] = ExpectedPositions(the_chart, axes[i][2], i - 1)

C7_Witness ==
  /\ last.op = "Url" /\ url_out.status = "ok" /\ encoder.kind = "bar"
  /\ ~the_chart.vertical
  /\ the_chart.left.labels = <<"a", "b", "c">>
  /\ the_chart.left.label_positions = <<0, 50, 100>>
  /\ url_out.params["chxl"] = "0:|x1|x2|1:|c|b|a|2:|x1|x2|3:|x1|x2"
  /\ url_out.params["chxp"] = "0,1,2|1,100,50,0|2,1,2|3,1,2"

(***************************************************************************)
(* C8: every successful AddPie(points, labels, colors) returns the number  *)
(* of pies held before the call, appends exactly one pie at that index     *)
(* with one new segment per point, in order, segment i carrying labels[i]  *)
(* and colors[i] when i is within the list and None otherwise, and leaves  *)
(* the earlier pies and their segments as they were.                       *)
(***************************************************************************)
ExpectedSegment(points, labels, colors, i) ==
  [size  |-> points[i],
   label |-> IF i <= OptLen(labels) THEN Val(labels)[i] ELSE None,
   color |-> IF i <= OptLen(colors) THEN Val(colors)[i] ELSE None]

C8_AddPieAppendsOnePie ==
  [][\A points \in PointLists, labels \in LabelLists, colors \in ColorLists :
       (last'.op = "AddPie" /\ last'.status = "ok" /\ AddPie(points, labels, colors)) =>
         /\ last'.ret = Some(Len(data))
         /\ Len(data') = Len(data) + 1
         /\ SubSeq(data', 1, Len(data)) = data
         /\ \A k \in 1..Len(data) : \A j \in 1..Len(data[k]) :
              heap'[data[k][j]] = heap[data[k][j]]
         /\ Len(data'[Len(data) + 1]) = Len(points)
         /\ \A i \in 1..Len(points) :
              /\ data'[Len(data) + 1][i] > Len(heap)
              /\ \A j \in 1..Len(points) :
                   data'[Len(data) + 1][i] = data'[Len(data) + 1][j] => i = j
              /\ heap'[data'[Len(data) + 1][i]] =
                   ExpectedSegment(points, labels, colors, i)]_vars

C8_Witness ==
  /\ last.op = "AddPie" /\ last.status = "ok" /\ last.ret = Some(1)
  /\ Len(data) = 2 /\ Len(data[2]) = 2
  /\ heap[data[2][1]] = [size |-> 0, label |-> Some("a"), color |-> Some("ff0000")]
  /\ heap[data[2][2]] = [size |-> 3, label |-> None, color |-> None]

(***************************************************************************)
(* C9: every segment the chart holds has size >= 0, whatever calls were    *)
(* made and whether they failed; assigning a negative size to a Segment    *)
(* fails and leaves the size as it was.                                    *)
(***************************************************************************)
HeldSizesNonNegative ==
  \A k \in 1..Len(data) : \A j \in 1..Len(data[k]) : heap[data[k][j]].size >= 0

C9_SizesNeverNegative ==
  /\ []HeldSizesNonNegative
  /\ [][\A r \in 1..MaxSegments, value \in Sizes :
          (last'.op = "SetSize" /\ value < 0 /\ SetSize(r, value)) =>
             (last'.status = "AssertionError" /\ heap'[r].size = heap[r].size)]_vars

C9_Witness ==
  /\ last.op = "SetSize" /\ last.status = "AssertionError"
  /\ \E k \in 1..Len(data) : \E j \in 1..Len(data[k]) :
       /\ heap[data[k][j]].size = 0
       /\ \E j2 \in 1..Len(data[k]) : j2 # j /\ data[k][j2] = data[k][j]

(***************************************************************************)
(* C10: AddLine(data, label, color, markers) in the current argument order *)
(* appends exactly one series at the end of chart.data, whose label,       *)
(* colour and marker list are the ones passed; AddLine in the retired      *)
(* order (data, label, markers, color) signals a DeprecationWarning.       *)
(***************************************************************************)
C10_AddLineArgumentOrder ==
  [][\A points \in LinePoints, label \in LineLabels, color \in LineColors,
        markers \in LineMarkers :
       /\ AddLine(points, label, ColorArg(color), MarkersArg(markers)) =>
            /\ Len(the_chart'.data) = Len(the_chart.data) + 1
            /\ SubSeq(the_chart'.data, 1, Len(the_chart.data)) = the_chart.data
            /\ LET series == the_chart'.data[Len(the_chart'.data)] IN
                 /\ series.data = points
                 /\ series.label = label
                 /\ Val(series.style).color = color
                 /\ series.markers = markers
            /\ ~last'.warned
       /\ AddLine(points, label, MarkersArg(markers), ColorArg(color)) =>
            last'.warned]_vars

C10_Witness ==
  /\ last.op = "AddLine" /\ ~last.warned /\ Len(the_chart.data) = 2
  /\ the_chart.data[2].label = Some("label")
  /\ Val(the_chart.data[2].style).color = "0000ff"
  /\ the_chart.data[2].markers = << <<0, MarkerX>> >>
  /\ the_chart.data[2].data = <<1, 2>>

(***************************************************************************)
(* C11: a labelled axis contributes an entry to the axis_position          *)
(* parameter (chxp) exactly when its label_positions are non-empty; a      *)
(* horizontal bar chart whose left axis has labels but no label positions  *)
(* emits no entry for that axis.                                           *)
(***************************************************************************)
RECURSIVE ExpectedPositionEntries(_, _, _)
ExpectedPositionEntries(chart, axes, i) ==
  IF i >= Len(axes) THEN <<>>
  ELSE (IF AxisOf(chart, axes[i + 1][2]).label_positions # <<>>
          THEN <<ExpectedPositions(chart, axes[i + 1][2], i)>> ELSE <<>>)
       \o ExpectedPositionEntries(chart, axes, i + 1)

C11_PositionEntryIffPositions ==
  (last.op = "Url" /\ url_out.status = "ok") =>
     LET expected == ExpectedPositionEntries(the_chart, LabelledAxes(the_chart), 0) IN
       IF expected = <<>> THEN "chxp" \notin DOMAIN url_out.params
       ELSE /\ "chxp" \in DOMAIN url_out.params
            /\ url_out.params["chxp"] = JoinStr("|", expected)

(***************************************************************************)
(* C12: AddPie is all-or-nothing: when AddPie(points, ...) fails because a *)
(* point is negative, chart.data is exactly what it was before the call,   *)
(* wherever the negative point stands in points.                           *)
(***************************************************************************)
C12_AddPieAllOrNothing ==
  [][\A points \in PointLists, labels \in LabelLists, colors \in ColorLists :
       (last'.op = "AddPie" /\ last'.status = "AssertionError"
          /\ AddPie(points, labels, colors)) =>
          data' = data]_vars

====
